---- MODULE Spec2Model ----
(***************************************************************************)
(* Model of try.py: the invoice field extractor (extract_invoice_details), *)
(* the all-pairs fuzzy matcher (match_invoices) and the metrics computed   *)
(* from its result.  Text is a sequence of one-character strings.          *)
(***************************************************************************)
EXTENDS Integers, Sequences, FiniteSets, TLC

VARIABLES
    pc,                 \* position of the running handler
    df1, df2,           \* the two uploaded datasets (sequences of rows)
    idx1, idx2,         \* positions of the two iterrows() loops
    matches,            \* the list built by match_invoices
    matches_df,         \* pd.DataFrame(matches)
    avg_score,          \* matches_df['Confidence_Score'].mean()
    potential_matches,  \* len(matches_df[Match_Status == 'Potential Match'])
    error,              \* the exception that ended the run, or NoError
    full_text,          \* text of the document
    details,            \* the dict built by extract_invoice_details
    key                 \* position of the "for key in details" loop

vars == <<pc, df1, df2, idx1, idx2, matches, matches_df, avg_score,
          potential_matches, error, full_text, details, key>>

matchVars == <<df1, df2, idx1, idx2, matches, matches_df, avg_score,
               potential_matches, error>>

extractVars == <<full_text, details, key>>

-----------------------------------------------------------------------------
(* Bounds of the model.                                                     *)

MaxRows1 == 2

MaxRows2 == 3

ScoreRows1 == 1

ScoreRows2 == 2

MaxFrags == 3

-----------------------------------------------------------------------------
(* Characters and strings.                                                  *)

UpperChars == <<"A","B","C","D","E","F","G","H","I","J","K","L","M",
                "N","O","P","Q","R","S","T","U","V","W","X","Y","Z">>

LowerChars == <<"a","b","c","d","e","f","g","h","i","j","k","l","m",
                "n","o","p","q","r","s","t","u","v","w","x","y","z">>

DigitChars == <<"0","1","2","3","4","5","6","7","8","9">>

UpperToLower ==
    [c \in {UpperChars[i] : i \in 1..26} |->
        LowerChars[CHOOSE i \in 1..26 : UpperChars[i] = c]]

\* str.lower() on one character
LowerChar(c) == IF c \in DOMAIN UpperToLower THEN UpperToLower[c] ELSE c

\* str.lower()
Lower(s) == [i \in 1..Len(s) |-> LowerChar(s[i])]

RECURSIVE IntToStr(_)
\* str() of a non-negative integer: its decimal digits
IntToStr(n) ==
    IF n < 10 THEN <<DigitChars[n + 1]>>
    ELSE IntToStr(n \div 10) \o <<DigitChars[(n % 10) + 1]>>

\* Cell values of a DataFrame: a string, an integer, or NaN (an empty cell).
StrVal(s) == [t |-> "str", s |-> s]

IntVal(n) == [t |-> "int", n |-> n]

NaNVal == [t |-> "nan"]

\* str(value)
Str(v) ==
    CASE v.t = "str" -> v.s
      [] v.t = "int" -> IntToStr(v.n)
      [] v.t = "nan" -> <<"n","a","n">>

-----------------------------------------------------------------------------
(* fuzz.ratio of the fuzzywuzzy library: 100 for equal strings, 0 when one   *)
(* is empty, else 100 * 2*M/T rounded to an integer, with T the total       *)
(* length and M the number of matched characters (the longest common        *)
(* subsequence, as the edit-distance matcher counts them).                  *)

Max(a, b) == IF a >= b THEN a ELSE b

RECURSIVE LcsLen(_, _)
LcsLen(a, b) ==
    IF a = <<>> \/ b = <<>> THEN 0
    ELSE IF Head(a) = Head(b) THEN 1 + LcsLen(Tail(a), Tail(b))
    ELSE Max(LcsLen(Tail(a), b), LcsLen(a, Tail(b)))

\* int(round(num / den)), Python 3 rounding (half to even)
RoundDiv(num, den) ==
    LET q == num \div den
        r == num % den
    IN  IF 2 * r < den THEN q
        ELSE IF 2 * r > den THEN q + 1
        ELSE IF q % 2 = 0 THEN q ELSE q + 1

Ratio(s1, s2) ==
    IF s1 = s2 THEN 100
    ELSE IF Len(s1) = 0 \/ Len(s2) = 0 THEN 0
    ELSE RoundDiv(200 * LcsLen(s1, s2), Len(s1) + Len(s2))

-----------------------------------------------------------------------------
(* The regular expressions of extract_invoice_details, as Python's re       *)
(* matches them: leftmost match, greedy repetition with backtracking,       *)
(* re.I for the literals.                                                   *)

Space == {" ", "\n", "\t", "\r"}

Digits == {DigitChars[i] : i \in 1..10}

Alphabet ==
    {UpperChars[i] : i \in 1..26} \cup {LowerChars[i] : i \in 1..26}
    \cup Digits \cup Space \cup {".", ":", ",", "/", "-", "$"}

\* \S
NonSpace == Alphabet \ Space

\* . (without re.S)
NotNewline == Alphabet \ {"\n"}

Fail == -1

\* the literal lit matches at position p, ignoring case
LitAt(t, p, lit) ==
    /\ p >= 1
    /\ p + Len(lit) - 1 <= Len(t)
    /\ \A i \in 1..Len(lit) : LowerChar(t[p + i - 1]) = LowerChar(lit[i])

RECURSIVE RunLen(_, _, _)
\* length of the longest run of characters of class from position p
RunLen(t, p, class) ==
    IF p <= Len(t) /\ t[p] \in class THEN 1 + RunLen(t, p + 1, class) ELSE 0

\* \d{2}/\d{2}/\d{4} at position q: its length, or Fail
DateAt(t, q) ==
    IF /\ q + 9 <= Len(t)
       /\ \A i \in {0, 1, 3, 4, 6, 7, 8, 9} : t[q + i] \in Digits
       /\ t[q + 2] = "/"
       /\ t[q + 5] = "/"
    THEN 10 ELSE Fail

RECURSIVE AmountTry(_, _, _)
\* [\d,]+ holding g characters, then \.\d{2}; g is given back one by one
AmountTry(t, q, g) ==
    IF g < 1 THEN Fail
    ELSE IF /\ q + g + 2 <= Len(t)
            /\ t[q + g] = "."
            /\ t[q + g + 1] \in Digits
            /\ t[q + g + 2] \in Digits
         THEN g + 3
         ELSE AmountTry(t, q, g - 1)

RECURSIVE LineTry(_, _, _)
\* (.+) holding g characters, then \n; g is given back one by one
LineTry(t, q, g) ==
    IF g < 1 THEN Fail
    ELSE IF q + g <= Len(t) /\ t[q + g] = "\n" THEN g
         ELSE LineTry(t, q, g - 1)

\* the capture group of a pattern at position q: its length, or Fail
GroupAt(group, t, q) ==
    CASE group = "token"  ->
            IF RunLen(t, q, NonSpace) >= 1 THEN RunLen(t, q, NonSpace) ELSE Fail
      [] group = "date"   -> DateAt(t, q)
      [] group = "amount" -> AmountTry(t, q, RunLen(t, q, Digits \cup {","}))
      [] group = "line"   -> LineTry(t, q, RunLen(t, q, NotNewline))

RECURSIVE SkipTry(_, _, _, _)
\* the skipped class* holding k characters from position q, then the group;
\* k is given back one by one.  The result is <<start, length>> of the
\* group, or <<>>.
SkipTry(pat, t, q, k) ==
    IF k < 0 THEN <<>>
    ELSE IF GroupAt(pat.group, t, q + k) # Fail
         THEN <<q + k, GroupAt(pat.group, t, q + k)>>
         ELSE SkipTry(pat, t, q, k - 1)

\* the pattern matched at position p: <<start, length>> of group 1, or <<>>
MatchAt(pat, t, p) ==
    IF LitAt(t, p, pat.lit)
    THEN SkipTry(pat, t, p + Len(pat.lit),
                 RunLen(t, p + Len(pat.lit), pat.skip))
    ELSE <<>>

None == [kind |-> "none"]

MatchObject(t, p, g) ==
    [kind |-> "match", pos |-> p, group1 |-> SubSeq(t, g[1], g[1] + g[2] - 1)]

StrObject(s) == [kind |-> "str", s |-> s]

RECURSIVE SearchFrom(_, _, _)
SearchFrom(pat, t, p) ==
    IF p > Len(t) + 1 THEN None
    ELSE IF MatchAt(pat, t, p) # <<>> THEN MatchObject(t, p, MatchAt(pat, t, p))
    ELSE SearchFrom(pat, t, p + 1)

RECURSIVE SearchBackFrom(_, _, _)
SearchBackFrom(pat, t, p) ==
    IF p < 1 THEN None
    ELSE IF MatchAt(pat, t, p) # <<>> THEN MatchObject(t, p, MatchAt(pat, t, p))
    ELSE SearchBackFrom(pat, t, p - 1)

SearchLast(pat, t) == SearchBackFrom(pat, t, Len(t) + 1)

\* re.search(pattern, text, re.I): the leftmost match, or None
Search(pat, t) == SearchFrom(pat, t, 1)

DateSkip == {".", ":"} \cup Space

\* line 20: r'Invoice No[.:\s]*(\S+)'
InvoiceNumberPattern ==
    [lit |-> <<"I","n","v","o","i","c","e"," ","N","o">>,
     skip |-> DateSkip, group |-> "token"]

\* line 21: r'Date[.:\s]*(\d{2}/\d{2}/\d{4})'
DatePattern ==
    [lit |-> <<"D","a","t","e">>, skip |-> DateSkip, group |-> "date"]

\* line 22: r'Total[\s\$]*([\d,]+\.\d{2})'
TotalAmountPattern ==
    [lit |-> <<"T","o","t","a","l">>, skip |-> Space \cup {"$"},
     group |-> "amount"]

\* line 23: r'Due Date[.:\s]*(\d{2}/\d{2}/\d{4})'
DueDatePattern ==
    [lit |-> <<"D","u","e"," ","D","a","t","e">>, skip |-> DateSkip,
     group |-> "date"]

\* line 24: r'From:\s*(.+)\n'
VendorPattern ==
    [lit |-> <<"F","r","o","m",":">>, skip |-> Space, group |-> "line"]

\* line 25: r'To:\s*(.+)\n'
ClientPattern ==
    [lit |-> <<"T","o",":">>, skip |-> Space, group |-> "line"]

DueLit == <<"D","u","e"," ">>

RECURSIVE SearchDateNotDue(_, _)
SearchDateNotDue(t, p) ==
    IF p > Len(t) + 1 THEN None
    ELSE IF MatchAt(DatePattern, t, p) # <<>> /\ ~LitAt(t, p - 4, DueLit)
         THEN MatchObject(t, p, MatchAt(DatePattern, t, p))
    ELSE SearchDateNotDue(t, p + 1)

DateSearchAnchored(t) == SearchDateNotDue(t, 1)

\* line 21
DateSearch(t) == Search(DatePattern, t)

Keys ==
    <<"invoice_number", "date", "total_amount", "due_date", "vendor", "client",
      "raw_text">>

PatternKeys ==
    {"invoice_number", "date", "total_amount", "due_date", "vendor", "client"}

\* lines 19-27: the dict literal
BuildDetails(t) ==
    [k \in {Keys[i] : i \in 1..7} |->
        CASE k = "invoice_number" -> Search(InvoiceNumberPattern, t)
          [] k = "date"           -> DateSearch(t)
          [] k = "total_amount"   -> Search(TotalAmountPattern, t)
          [] k = "due_date"       -> Search(DueDatePattern, t)
          [] k = "vendor"         -> Search(VendorPattern, t)
          [] k = "client"         -> Search(ClientPattern, t)
          [] k = "raw_text"       -> StrObject(t)]

\* truth value of a dict entry: a Match object is true, None is false, a
\* string is true unless empty
Truthy(v) ==
    CASE v.kind = "match" -> TRUE
      [] v.kind = "none"  -> FALSE
      [] v.kind = "str"   -> v.s # <<>>

NotFoundText == <<"N","o","t"," ","F","o","u","n","d">>

ConvertEntryNotFound(v) ==
    IF v.kind # "str"
    THEN (IF Truthy(v) THEN StrObject(v.group1) ELSE StrObject(NotFoundText))
    ELSE v

\* lines 30-31: the body of the loop over the keys
ConvertEntry(v) ==
    IF Truthy(v) /\ v.kind # "str"
    THEN (IF Truthy(v) THEN StrObject(v.group1) ELSE StrObject(NotFoundText))
    ELSE v

-----------------------------------------------------------------------------
(* match_invoices                                                           *)

MATCH_THRESHOLD == 70

NoError == [type |-> "none"]

\* the exception of a failed column or field lookup
KeyError(k) == [type |-> "KeyError", key |-> k]

Unset == [kind |-> "unset"]

HasInvoice(row) == "invoice" \in DOMAIN row

ScoreNoLower(row1, row2) == Ratio(Str(row1["invoice"]), Str(row2["invoice"]))

\* line 43
Score(row1, row2) ==
    Ratio(Lower(Str(row1["invoice"])), Lower(Str(row2["invoice"])))

StatusInclusive(score) ==
    IF score >= MATCH_THRESHOLD THEN "Potential Match" ELSE "No Match"

\* line 48
Status(score) ==
    IF score > MATCH_THRESHOLD THEN "Potential Match" ELSE "No Match"

CandidateSwapped(row1, row2) ==
    [Dataset1_Invoice |-> row2["invoice"],
     Dataset2_Invoice |-> row1["invoice"],
     Confidence_Score |-> Score(row1, row2),
     Match_Status     |-> Status(Score(row1, row2))]

\* lines 44-49: the dict appended for one pair of rows
Candidate(row1, row2) ==
    [Dataset1_Invoice |-> row1["invoice"],
     Dataset2_Invoice |-> row2["invoice"],
     Confidence_Score |-> Score(row1, row2),
     Match_Status     |-> Status(Score(row1, row2))]

CandidateColumns ==
    {"Dataset1_Invoice", "Dataset2_Invoice", "Confidence_Score", "Match_Status"}

DataFrameKeepsColumns(list) == [columns |-> CandidateColumns, rows |-> list]

\* pd.DataFrame(list of dicts): the columns are the keys of the dicts, so an
\* empty list gives a frame with no columns at all.
DataFrame(list) ==
    [columns |-> IF list = <<>> THEN {} ELSE CandidateColumns, rows |-> list]

RECURSIVE SumScores(_)
SumScores(rows) ==
    IF rows = <<>> THEN 0
    ELSE Head(rows).Confidence_Score + SumScores(Tail(rows))

MeanFloor(rows) ==
    IF rows = <<>> THEN [kind |-> "nan"]
    ELSE [kind |-> "float", sum |-> SumScores(rows) \div Len(rows), n |-> 1]

\* Series.mean(): NaN on an empty column, else sum / count (kept exact)
Mean(rows) ==
    IF rows = <<>> THEN [kind |-> "nan"]
    ELSE [kind |-> "float", sum |-> SumScores(rows), n |-> Len(rows)]

\* matches_df[matches_df['Match_Status'] == 'Potential Match']
PotentialRows(rows) == SelectSeq(rows, LAMBDA r : r.Match_Status = "Potential Match")

-----------------------------------------------------------------------------
(* Inputs of the matcher.  A dataset is a sequence of rows that all have    *)
(* the same columns; a dataset without an 'invoice' column has rows with    *)
(* an 'amount' column only.                                                 *)

SeqsUpTo(S, n) == UNION {[1..k -> S] : k \in 0..n}

StructPool ==
    {StrVal(<<"a","b">>), StrVal(<<"A","B","C">>), IntVal(12), NaNVal}

ScorePool ==
    {StrVal(<<"a","b">>), StrVal(<<"a","b","c">>), StrVal(<<"A","B","C">>),
     StrVal(<<"a","b","c","d","e","f","g">>),
     StrVal(<<"a","b","c","d","e","x","y">>),
     StrVal(<<"a","b","c","d","e","f","g","h","i","j","k","l","m">>),
     StrVal(<<"1","2">>), IntVal(12)}

InvoiceRows(pool) == {[invoice |-> v] : v \in pool}

OtherRows == {[amount |-> IntVal(5)]}

Datasets(pool, n) == SeqsUpTo(InvoiceRows(pool), n) \cup SeqsUpTo(OtherRows, n)

MatchInputs ==
    (Datasets(StructPool, MaxRows1) \X Datasets(StructPool, MaxRows2))
    \cup (SeqsUpTo(InvoiceRows(ScorePool), ScoreRows1)
          \X SeqsUpTo(InvoiceRows(ScorePool), ScoreRows2))

NoText == <<>>

NoDetails == [kind |-> "unset"]

matchIdle ==
    /\ df1 = <<>>
    /\ df2 = <<>>
    /\ idx1 = 1
    /\ idx2 = 1
    /\ matches = <<>>
    /\ matches_df = Unset
    /\ avg_score = Unset
    /\ potential_matches = Unset
    /\ error = NoError

InitMatch ==
    /\ pc = "match"
    /\ \E input \in MatchInputs : df1 = input[1] /\ df2 = input[2]
    /\ idx1 = 1
    /\ idx2 = 1
    /\ matches = <<>>
    /\ matches_df = Unset
    /\ avg_score = Unset
    /\ potential_matches = Unset
    /\ error = NoError
    /\ full_text = NoText
    /\ details = NoDetails
    /\ key = 0

\* lines 41-49: one execution of the inner loop body
MatchPair ==
    /\ pc = "match"
    /\ idx1 <= Len(df1)
    /\ idx2 <= Len(df2)
    /\ HasInvoice(df1[idx1])
    /\ HasInvoice(df2[idx2])
    /\ matches' = Append(matches, Candidate(df1[idx1], df2[idx2]))
    /\ IF idx2 < Len(df2)
       THEN idx2' = idx2 + 1 /\ idx1' = idx1
       ELSE idx2' = 1 /\ idx1' = idx1 + 1
    /\ UNCHANGED <<pc, df1, df2, matches_df, avg_score, potential_matches, error>>
    /\ UNCHANGED extractVars

\* line 43: row1['invoice'] or row2['invoice'] on a row without that field
MatchKeyError ==
    /\ pc = "match"
    /\ idx1 <= Len(df1)
    /\ idx2 <= Len(df2)
    /\ ~(HasInvoice(df1[idx1]) /\ HasInvoice(df2[idx2]))
    /\ error' = KeyError("invoice")
    /\ pc' = "raised"
    /\ UNCHANGED <<df1, df2, idx1, idx2, matches, matches_df, avg_score,
                   potential_matches>>
    /\ UNCHANGED extractVars

\* line 50, reached when the loops are exhausted
MatchReturn ==
    /\ pc = "match"
    /\ (idx1 > Len(df1) \/ Len(df2) = 0)
    /\ matches_df' = DataFrame(matches)
    /\ pc' = "metrics"
    /\ UNCHANGED <<df1, df2, idx1, idx2, matches, avg_score, potential_matches,
                   error>>
    /\ UNCHANGED extractVars

\* lines 160-161
MetricAverage ==
    /\ pc = "metrics"
    /\ IF "Confidence_Score" \in matches_df.columns
       THEN /\ avg_score' = Mean(matches_df.rows)
            /\ pc' = "count"
            /\ error' = error
       ELSE /\ error' = KeyError("Confidence_Score")
            /\ pc' = "raised"
            /\ avg_score' = avg_score
    /\ UNCHANGED <<df1, df2, idx1, idx2, matches, matches_df, potential_matches>>
    /\ UNCHANGED extractVars

\* lines 164-165
MetricCount ==
    /\ pc = "count"
    /\ IF "Match_Status" \in matches_df.columns
       THEN /\ potential_matches' = Len(PotentialRows(matches_df.rows))
            /\ pc' = "done"
            /\ error' = error
       ELSE /\ error' = KeyError("Match_Status")
            /\ pc' = "raised"
            /\ potential_matches' = potential_matches
    /\ UNCHANGED <<df1, df2, idx1, idx2, matches, matches_df, avg_score>>
    /\ UNCHANGED extractVars

NextMatch ==
    \/ MatchPair
    \/ MatchKeyError
    \/ MatchReturn
    \/ MetricAverage
    \/ MetricCount

SpecMatch == InitMatch /\ [][NextMatch]_vars

-----------------------------------------------------------------------------
(* extract_invoice_details.  The document text is a concatenation of at     *)
(* most MaxFrags fragments.                                                 *)

Fragments ==
    {<<"D","u","e"," ">>,
     <<"D","a","t","e",":"," ","0","1","/","0","2","/","2","0","2","4">>,
     <<"d","a","t","e",".","0","3","/","0","4","/","2","0","2","5">>,
     <<"F","r","o","m",":">>,
     <<"T","o",":">>,
     <<" ">>,
     <<"\n">>,
     <<"A","c","m","e","\n">>,
     <<"I","n","v","o","i","c","e"," ","N","o",":"," ","I","N","V","-","1">>,
     <<"T","o","t","a","l"," ","$","1",",","2","3","4",".","5","6">>}

RECURSIVE Concat(_)
Concat(fs) == IF fs = <<>> THEN <<>> ELSE Head(fs) \o Concat(Tail(fs))

Texts == {Concat(fs) : fs \in SeqsUpTo(Fragments, MaxFrags)}

InitExtract ==
    /\ pc = "extract"
    /\ full_text \in Texts
    /\ details = NoDetails
    /\ key = 0
    /\ matchIdle

\* lines 19-27
SearchFields ==
    /\ pc = "extract"
    /\ details' = BuildDetails(full_text)
    /\ key' = 1
    /\ pc' = "convert"
    /\ UNCHANGED full_text
    /\ UNCHANGED matchVars

\* lines 29-31: one iteration of "for key in details"
ConvertKey ==
    /\ pc = "convert"
    /\ key <= Len(Keys)
    /\ details' = [details EXCEPT ![Keys[key]] = ConvertEntry(details[Keys[key]])]
    /\ key' = key + 1
    /\ UNCHANGED <<pc, full_text>>
    /\ UNCHANGED matchVars

\* line 36, after the loop
ExtractReturn ==
    /\ pc = "convert"
    /\ key > Len(Keys)
    /\ pc' = "returned"
    /\ UNCHANGED <<full_text, details, key>>
    /\ UNCHANGED matchVars

NextExtract ==
    \/ SearchFields
    \/ ConvertKey
    \/ ExtractReturn

SpecExtract == InitExtract /\ [][NextExtract]_vars

-----------------------------------------------------------------------------
(* Properties of the matcher and of the metrics.                            *)

Returned == pc \in {"metrics", "count", "done"} \/ (pc = "raised" /\ matches_df # Unset)

A2 == StrVal(<<"a","b">>)

A3 == StrVal(<<"a","b","c">>)

U3 == StrVal(<<"A","B","C">>)

A7 == StrVal(<<"a","b","c","d","e","f","g">>)

X7 == StrVal(<<"a","b","c","d","e","x","y">>)

A13 == StrVal(<<"a","b","c","d","e","f","g","h","i","j","k","l","m">>)

RECURSIVE TotalScore(_, _)
\* the sum of the first k confidence scores of a candidate list
TotalScore(list, k) ==
    IF k = 0 THEN 0 ELSE list[k].Confidence_Score + TotalScore(list, k - 1)

\* C1: once match_invoices has returned, the result has exactly n*m
\* candidates and the one at 0-based position i*m + j carries the original
\* invoice values of dataset1's i-th and dataset2's j-th row (row-major).
C1_RowMajor ==
    Returned =>
        LET n == Len(df1)
            m == Len(df2)
        IN  /\ Len(matches_df.rows) = n * m
            /\ \A i \in 0..(n - 1) : \A j \in 0..(m - 1) :
                  LET c == matches_df.rows[i * m + j + 1]
                  IN  /\ c.Dataset1_Invoice = df1[i + 1]["invoice"]
                      /\ c.Dataset2_Invoice = df2[j + 1]["invoice"]

C1_Witness ==
    /\ pc = "done"
    /\ Len(df1) = 2
    /\ Len(df2) = 3
    /\ Len(matches_df.rows) = 6
    /\ df1[1]["invoice"] = U3
    /\ df1[2]["invoice"] = IntVal(12)
    /\ df2[1]["invoice"] = A2
    /\ df2[2]["invoice"] = NaNVal
    /\ df2[3]["invoice"] = U3
    /\ matches_df.rows[4].Dataset1_Invoice = IntVal(12)
    /\ matches_df.rows[4].Dataset2_Invoice = A2

\* C2: every candidate is a Potential Match exactly when its score is
\* strictly above 70 (70 itself is No Match, 71 is Potential Match).
C2_Threshold ==
    \A k \in 1..Len(matches) :
        /\ matches[k].Match_Status \in {"Potential Match", "No Match"}
        /\ (matches[k].Match_Status = "Potential Match")
              <=> (matches[k].Confidence_Score > 70)

C2_Witness ==
    /\ Len(matches) = 2
    /\ df1[1]["invoice"] = A7
    /\ df2[1]["invoice"] = A13
    /\ df2[2]["invoice"] = X7
    /\ matches[1].Confidence_Score = 70
    /\ matches[1].Match_Status = "No Match"
    /\ matches[2].Confidence_Score = 71
    /\ matches[2].Match_Status = "Potential Match"

\* C3: match_invoices never raises on a malformed record: a row without the
\* invoice field is coerced, and every row is still paired with every row.
C3_NeverRaises ==
    /\ error # KeyError("invoice")
    /\ ~(pc = "raised" /\ matches_df = Unset)

C7_Summary ==
    (pc = "done" /\ matches # <<>>) =>
        /\ avg_score.kind = "float"
        /\ avg_score.n > 0
        /\ avg_score.sum * Len(matches) = TotalScore(matches, Len(matches)) * avg_score.n
        /\ potential_matches =
              Cardinality({k \in 1..Len(matches) : matches[k].Confidence_Score > 70})
        /\ potential_matches =
              Cardinality({k \in 1..Len(matches) :
                              matches[k].Match_Status = "Potential Match"})

C7_Witness ==
    /\ pc = "done"
    /\ Len(matches) = 2
    /\ matches[1].Confidence_Score = 80
    /\ matches[2].Confidence_Score = 60
    /\ avg_score.sum = 70 * avg_score.n
    /\ potential_matches = 1

\* C8: two identifiers equal after str() and lower() score 100 and are a
\* Potential Match; every score is an integer in 0..100.
C8_EqualIsHundred ==
    \A i \in 1..Len(df1) : \A j \in 1..Len(df2) :
        LET k == (i - 1) * Len(df2) + j
        IN  k <= Len(matches) =>
              /\ matches[k].Confidence_Score \in 0..100
              /\ Lower(Str(df1[i]["invoice"])) = Lower(Str(df2[j]["invoice"]))
                    => /\ matches[k].Confidence_Score = 100
                       /\ matches[k].Match_Status = "Potential Match"

C8_Witness ==
    /\ Len(matches) = 2
    /\ df1[1]["invoice"] = U3
    /\ df2[1]["invoice"] = A3
    /\ df2[2]["invoice"] = A7
    /\ matches[1].Confidence_Score = 100
    /\ matches[1].Match_Status = "Potential Match"
    /\ matches[2].Confidence_Score = 60

-----------------------------------------------------------------------------
(* Properties of the field extractor.                                       *)

\* s occurs in t as a contiguous, non-empty piece
OccursIn(s, t) ==
    /\ s # <<>>
    /\ \E a \in 1..Len(t) : a + Len(s) - 1 <= Len(t) /\ SubSeq(t, a, a + Len(s) - 1) = s

\* positions at which a pattern matches
MatchPositions(pat, t) == {p \in 1..(Len(t) + 1) : MatchAt(pat, t, p) # <<>>}

Least(S) == CHOOSE p \in S : \A q \in S : p <= q

\* the value of a field: the capture of the leftmost match, or None
FirstCapture(pat, t) ==
    IF MatchPositions(pat, t) = {} THEN None
    ELSE LET g == MatchAt(pat, t, Least(MatchPositions(pat, t)))
         IN  StrObject(SubSeq(t, g[1], g[1] + g[2] - 1))

\* the text has the marker somewhere, in any letter case
HasMarker(t, lit) == \E p \in 1..Len(t) : LitAt(t, p, lit)

\* C4: the returned record has all seven fields; each pattern field holds
\* a captured piece of the text or the None sentinel (never the text
\* "Not Found"); raw_text is the input text; the empty text gives six None.
C4_RecordShape ==
    pc = "returned" =>
        /\ DOMAIN details = PatternKeys \cup {"raw_text"}
        /\ \A k \in PatternKeys :
              \/ details[k] = None
              \/ /\ details[k].kind = "str"
                 /\ OccursIn(details[k].s, full_text)
                 /\ details[k].s # NotFoundText
        /\ details["raw_text"] = StrObject(full_text)
        /\ (full_text = <<>> => \A k \in PatternKeys : details[k] = None)

C4_Witness ==
    /\ pc = "returned"
    /\ full_text = <<"T","o",":","A","c","m","e","\n">>
    /\ details["client"] = StrObject(<<"A","c","m","e">>)
    /\ details["vendor"] = None
    /\ details["invoice_number"] = None
    /\ details["raw_text"] = StrObject(full_text)

\* C5: without a "Due Date" marker due_date is None and each other field
\* is the capture of the leftmost match of its own pattern.
C5_Independent ==
    (pc = "returned" /\ ~HasMarker(full_text, DueDatePattern.lit)) =>
        /\ details["due_date"] = None
        /\ details["invoice_number"] = FirstCapture(InvoiceNumberPattern, full_text)
        /\ details["date"] = FirstCapture(DatePattern, full_text)
        /\ details["total_amount"] = FirstCapture(TotalAmountPattern, full_text)
        /\ details["vendor"] = FirstCapture(VendorPattern, full_text)
        /\ details["client"] = FirstCapture(ClientPattern, full_text)

C5_Witness ==
    /\ pc = "returned"
    /\ ~HasMarker(full_text, DueDatePattern.lit)
    /\ details["due_date"] = None
    /\ details["date"] = StrObject(<<"0","3","/","0","4","/","2","0","2","5">>)
    /\ details["total_amount"] = StrObject(<<"1",",","2","3","4",".","5","6">>)
    /\ details["invoice_number"] = StrObject(<<"I","N","V","-","1","d","a","t","e",".","0","3","/","0","4","/","2","0","2","5","T","o","t","a","l">>)

\* the rest of the line from position q, up to the next newline
RestOfLine(t, q) == SubSeq(t, q, q + RunLen(t, q, NotNewline) - 1)

\* s without its leading whitespace
StripLeft(s) == SubSeq(s, 1 + RunLen(s, 1, Space), Len(s))

SameLineValue(t, lit, v) ==
    LET p == Least({q \in 1..Len(t) : LitAt(t, q, lit)})
        rest == RestOfLine(t, p + Len(lit))
    IN  v.kind = "str" => v.s \in {rest, StripLeft(rest)}

\* C9: the vendor (client) is the text that follows the first "From:"
\* ("To:") on the same line, up to the next newline; it never comes from a
\* later line.
C9_SameLine ==
    pc = "returned" =>
        /\ HasMarker(full_text, VendorPattern.lit)
              => SameLineValue(full_text, VendorPattern.lit, details["vendor"])
        /\ HasMarker(full_text, ClientPattern.lit)
              => SameLineValue(full_text, ClientPattern.lit, details["client"])

\* the leftmost "Date" followed by a date token is the one inside "Due Date"
FirstDateInsideDue(t) ==
    /\ MatchPositions(DatePattern, t) # {}
    /\ LitAt(t, Least(MatchPositions(DatePattern, t)) - 4, DueLit)

\* C10: when the first "Date" with a date token is the one of a "Due Date"
\* marker, date and due_date hold that same token.
C10_DateIsDueDate ==
    (pc = "returned" /\ FirstDateInsideDue(full_text)) =>
        /\ details["date"].kind = "str"
        /\ details["date"] = details["due_date"]

C10_Witness ==
    /\ pc = "returned"
    /\ FirstDateInsideDue(full_text)
    /\ details["date"] = StrObject(<<"0","1","/","0","2","/","2","0","2","4">>)
    /\ details["due_date"] = StrObject(<<"0","1","/","0","2","/","2","0","2","4">>)
    /\ OccursIn(<<"d","a","t","e",".","0","3","/","0","4","/","2","0","2","5">>, full_text)

====
